---- MODULE Spec2Model ----
(***************************************************************************)
(* A model of the Huffman coder of src/huffman.rs: symbol_frequency,       *)
(* make_key (the greedy merge over a BinaryHeap), tree_to_key,             *)
(* make_encode_key, encode and decode / decode_symbol.                     *)
(*                                                                         *)
(* Option<S> is modelled as a sequence: None is <<>> and Some(s) is <<s>>. *)
(* A BitVec is a sequence of BOOLEAN, a Vec<u8> a sequence of 0..255.      *)
(* The BinaryHeap is modelled as the set of trees it holds; pop() returns  *)
(* a greatest element under Ord, and which one among several equal ones is *)
(* left open (it depends on the heap layout, which depends on the HashMap  *)
(* iteration order of the frequency map).                                  *)
(***************************************************************************)
EXTENDS Integers, Sequences, FiniteSets

VARIABLES
    content,        \* encode's argument
    pc,             \* position in encode / decode
    run,            \* 1 in the first call of encode on content, 2 in the second
    first,          \* <<>>, or <<key, bytes>> returned by the first call
    frequency_map,  \* make_key: HashMap<S, u64>
    priority_queue, \* make_key: BinaryHeap<HuffmanTree<Option<S>>>
    decode_key,     \* encode: the HuffmanKey returned by make_key
    encode_key,     \* encode: HashMap<Option<S>, BitVec>
    idx,            \* encode: number of symbols of content already encoded
    encoded_bits,   \* encode: BitVec
    encoded,        \* encode: the bytes returned
    truncated,      \* whether decode was handed encoded without its final byte
    key,            \* decode's argument key
    input,          \* decode's argument encoded
    bits,           \* decode: the bits of input (the iterator's sequence)
    consumed,       \* decode: how many bits the iterator has yielded
    symBits,        \* decode_symbol: bits yielded in the current call
    tree,           \* decode_symbol: the cursor
    out,            \* decode: Vec<S>
    result          \* decode's return value

vars == <<content, pc, run, first, frequency_map, priority_queue, decode_key,
          encode_key, idx, encoded_bits, encoded, truncated, key, input, bits,
          consumed, symBits, tree, out, result>>

---------------------------------------------------------------------------
(* Bounds and input domains *)

MaxLen == 4
MaxLeaves == 3
MaxBytes == 2

Symbols == {97, 98, 99}
ByteValues == {0, 108, 255}

SeqsUpTo(S, n) == UNION {[1..k -> S] : k \in 0..n}

---------------------------------------------------------------------------
(* Option<S> *)

None == <<>>
Some(s) == <<s>>

---------------------------------------------------------------------------
(* enum HuffmanKey<S> *)

EndOfInput == [kind |-> "EndOfInput"]
Symbol(s) == [kind |-> "Symbol", symbol |-> s]
KeyBranch(l, r) == [kind |-> "Branch", left |-> l, right |-> r]
NoKey == [kind |-> "Unset"]

(* enum HuffmanTree<S> *)

Leaf(f, s) == [kind |-> "Leaf", frequency |-> f, symbol |-> s]
Branch(f, l, r) == [kind |-> "Branch", frequency |-> f, left |-> l, right |-> r]

frequency(t) == t.frequency

(* cmp as it would be were the order of the frequencies not inverted *)
cmp_natural(self, other) ==
    IF frequency(self) = frequency(other) THEN "Equal"
    ELSE IF frequency(self) > frequency(other) THEN "Greater"
    ELSE "Less"

(* impl Ord for HuffmanTree: the inverse of the order of the frequencies *)
cmp(self, other) ==
    IF frequency(self) = frequency(other) THEN "Equal"
    ELSE IF frequency(self) > frequency(other) THEN "Less"
    ELSE "Greater"

(* BinaryHeap::pop: the elements pop() may return, the greatest under Ord *)
pop(queue) == {t \in queue : \A u \in queue : cmp(t, u) # "Less"}

---------------------------------------------------------------------------
(* symbol_frequency *)

RECURSIVE symbol_frequency_from(_, _, _)
symbol_frequency_from(symbol_counts, c, n) ==
    IF n > Len(c) THEN symbol_counts
    ELSE LET s == c[n]
             old == IF s \in DOMAIN symbol_counts THEN symbol_counts[s] ELSE 0
         IN symbol_frequency_from(
                [x \in DOMAIN symbol_counts \cup {s} |->
                    IF x = s THEN old + 1 ELSE symbol_counts[x]], c, n + 1)

symbol_frequency(c) == symbol_frequency_from(<<>>, c, 1)

(* initial_queue as it would be were the end of input not pushed *)
initial_queue_no_end(fm) ==
    {Leaf(fm[s], Some(s)) : s \in DOMAIN fm}

(* make_key: the heap built from the frequency map, plus the end of input *)
initial_queue(fm) ==
    {Leaf(fm[s], Some(s)) : s \in DOMAIN fm} \cup {Leaf(0, None)}

(* make_key: the branch made of the two trees popped, a first *)
merge(a, b) ==
    IF frequency(a) < frequency(b)
    THEN Branch(frequency(a) + frequency(b), a, b)
    ELSE Branch(frequency(a) + frequency(b), b, a)

RECURSIVE tree_to_key(_)
tree_to_key(t) ==
    IF t.kind = "Leaf"
    THEN IF t.symbol = None THEN EndOfInput ELSE Symbol(t.symbol[1])
    ELSE KeyBranch(tree_to_key(t.left), tree_to_key(t.right))

---------------------------------------------------------------------------
(* make_encode_key *)

insert(map, k, v) == [x \in DOMAIN map \cup {k} |-> IF x = k THEN v ELSE map[x]]

(* key_left as it would be were the bit not pushed *)
key_left_unpushed(b) == b

key_left(b) == Append(b, FALSE)
key_right(b) == Append(b, TRUE)

RECURSIVE make_encode_key_loop(_, _)
make_encode_key_loop(map, stack) ==
    IF stack = <<>> THEN map
    ELSE LET top == stack[Len(stack)]
             rest == SubSeq(stack, 1, Len(stack) - 1)
             b == top[1]
             k == top[2]
         IN IF k.kind = "EndOfInput"
            THEN make_encode_key_loop(insert(map, None, b), rest)
            ELSE IF k.kind = "Symbol"
            THEN make_encode_key_loop(insert(map, Some(k.symbol), b), rest)
            ELSE make_encode_key_loop(map,
                    rest \o << <<key_left(b), k.left>>, <<key_right(b), k.right>> >>)

make_encode_key(k) == make_encode_key_loop(<<>>, << <<(<<>>), k>> >>)

---------------------------------------------------------------------------
(* BitVec::to_bytes and BitVec::from_bytes: most significant bit first, the
   last byte padded with zero bits *)

Pow2(n) == IF n = 0 THEN 1 ELSE IF n = 1 THEN 2 ELSE IF n = 2 THEN 4
           ELSE IF n = 3 THEN 8 ELSE IF n = 4 THEN 16 ELSE IF n = 5 THEN 32
           ELSE IF n = 6 THEN 64 ELSE 128

BitAt(b, n) == IF n <= Len(b) /\ b[n] THEN 1 ELSE 0

RECURSIVE ByteFrom(_, _, _)
ByteFrom(b, base, j) ==
    IF j > 8 THEN 0
    ELSE BitAt(b, base + j) * Pow2(8 - j) + ByteFrom(b, base, j + 1)

(* to_bytes as it would be were a final partial byte dropped *)
to_bytes_floor(b) ==
    [n \in 1..(Len(b) \div 8) |-> ByteFrom(b, 8 * (n - 1), 1)]

to_bytes(b) ==
    [n \in 1..((Len(b) + 7) \div 8) |-> ByteFrom(b, 8 * (n - 1), 1)]

(* from_bytes as it would be were the least significant bit first *)
from_bytes_lsb(bytes) ==
    [n \in 1..(8 * Len(bytes)) |->
        (bytes[((n - 1) \div 8) + 1] \div Pow2((n - 1) % 8)) % 2 = 1]

from_bytes(bytes) ==
    [n \in 1..(8 * Len(bytes)) |->
        (bytes[((n - 1) \div 8) + 1] \div Pow2(7 - ((n - 1) % 8))) % 2 = 1]

---------------------------------------------------------------------------
(* Return values *)

Pending == [status |-> "Pending", value |-> <<>>]
DecodeNone == [status |-> "None", value |-> <<>>]
DecodeSome(v) == [status |-> "Some", value |-> v]

---------------------------------------------------------------------------
(* encode *)

Init ==
    /\ content \in SeqsUpTo(Symbols, MaxLen)
    /\ pc = "make_key"
    /\ run = 1
    /\ first = <<>>
    /\ frequency_map = <<>>
    /\ priority_queue = {}
    /\ decode_key = NoKey
    /\ encode_key = <<>>
    /\ idx = 0
    /\ encoded_bits = <<>>
    /\ encoded = <<>>
    /\ truncated = FALSE
    /\ key = NoKey
    /\ input = <<>>
    /\ bits = <<>>
    /\ consumed = 0
    /\ symBits = 0
    /\ tree = NoKey
    /\ out = <<>>
    /\ result = Pending

(* make_key, lines 132-144: count the symbols, build the heap, push the end
   of input *)
MakeKeySeed ==
    /\ pc = "make_key"
    /\ frequency_map' = symbol_frequency(content)
    /\ priority_queue' = initial_queue(frequency_map')
    /\ pc' = "merge"
    /\ UNCHANGED <<content, run, first, decode_key, encode_key, idx,
                   encoded_bits, encoded, truncated, key, input, bits,
                   consumed, symBits, tree, out, result>>

(* make_key, lines 146-165: pop a, pop b, push the branch *)
MakeKeyMerge ==
    /\ pc = "merge"
    /\ Cardinality(priority_queue) >= 2
    /\ \E a \in pop(priority_queue) :
         \E b \in pop(priority_queue \ {a}) :
            priority_queue' = (priority_queue \ {a, b}) \cup {merge(a, b)}
    /\ UNCHANGED <<content, pc, run, first, frequency_map, decode_key,
                   encode_key, idx, encoded_bits, encoded, truncated, key,
                   input, bits, consumed, symBits, tree, out, result>>

(* make_key, lines 147-148, 166-171: the second pop finds the heap empty;
   then encode, line 12: the encode key is derived *)
MakeKeyReturn ==
    /\ pc = "merge"
    /\ Cardinality(priority_queue) < 2
    /\ IF priority_queue = {}
       THEN /\ pc' = "panic"
            /\ UNCHANGED <<priority_queue, decode_key, encode_key>>
       ELSE \E a \in pop(priority_queue) :
            /\ priority_queue' = {}
            /\ decode_key' = tree_to_key(a)
            /\ encode_key' = make_encode_key(decode_key')
            /\ pc' = "encode_symbols"
    /\ UNCHANGED <<content, run, first, frequency_map, idx, encoded_bits,
                   encoded, truncated, key, input, bits, consumed, symBits,
                   tree, out, result>>

(* encode, lines 18-23: one turn of the loop over content *)
EncodeSymbol ==
    /\ pc = "encode_symbols"
    /\ idx < Len(content)
    /\ IF Some(content[idx + 1]) \in DOMAIN encode_key
       THEN /\ encoded_bits' = encoded_bits \o encode_key[Some(content[idx + 1])]
            /\ idx' = idx + 1
            /\ pc' = pc
       ELSE /\ pc' = "panic"
            /\ UNCHANGED <<encoded_bits, idx>>
    /\ UNCHANGED <<content, run, first, frequency_map, priority_queue,
                   decode_key, encode_key, encoded, truncated, key, input,
                   bits, consumed, symBits, tree, out, result>>

(* EncodeEndOfInput as it would be were the end of input not added *)
EncodeEndOfInputUnmarked ==
    /\ pc = "encode_symbols"
    /\ idx = Len(content)
    /\ encoded_bits' = encoded_bits
    /\ encoded' = to_bytes(encoded_bits')
    /\ pc' = "encoded"
    /\ UNCHANGED <<content, run, first, frequency_map, priority_queue,
                   decode_key, encode_key, idx, truncated, key, input, bits,
                   consumed, symBits, tree, out, result>>

(* encode, lines 25-33: the end of input is added, the bits become bytes *)
EncodeEndOfInput ==
    /\ pc = "encode_symbols"
    /\ idx = Len(content)
    /\ IF None \in DOMAIN encode_key
       THEN /\ encoded_bits' = encoded_bits \o encode_key[None]
            /\ encoded' = to_bytes(encoded_bits')
            /\ pc' = "encoded"
       ELSE /\ pc' = "panic"
            /\ UNCHANGED <<encoded_bits, encoded>>
    /\ UNCHANGED <<content, run, first, frequency_map, priority_queue,
                   decode_key, encode_key, idx, truncated, key, input, bits,
                   consumed, symBits, tree, out, result>>

(* encode is called a second time on the same content *)
EncodeAgain ==
    /\ pc = "encoded"
    /\ run = 1
    /\ run' = 2
    /\ first' = <<decode_key, encoded>>
    /\ pc' = "make_key"
    /\ frequency_map' = <<>>
    /\ priority_queue' = {}
    /\ decode_key' = NoKey
    /\ encode_key' = <<>>
    /\ idx' = 0
    /\ encoded_bits' = <<>>
    /\ encoded' = <<>>
    /\ UNCHANGED <<content, truncated, key, input, bits, consumed, symBits,
                   tree, out, result>>

---------------------------------------------------------------------------
(* decode *)

DropLast(s) == SubSeq(s, 1, Len(s) - 1)

(* main, line 21: decode is called with encode's key, and with encode's
   bytes or with those bytes less the final one *)
DecodeCall(t) ==
    /\ pc = "encoded"
    /\ t => encoded # <<>>
    /\ truncated' = t
    /\ key' = decode_key
    /\ input' = IF t THEN DropLast(encoded) ELSE encoded
    /\ pc' = "decode"
    /\ UNCHANGED <<content, run, first, frequency_map, priority_queue,
                   decode_key, encode_key, idx, encoded_bits, encoded, bits,
                   consumed, symBits, tree, out, result>>

(* decode, lines 37-41, and decode_symbol, line 59 *)
DecodeInit ==
    /\ pc = "decode"
    /\ bits' = from_bytes(input)
    /\ out' = <<>>
    /\ consumed' = 0
    /\ symBits' = 0
    /\ tree' = key
    /\ pc' = "decode_symbol"
    /\ UNCHANGED <<content, run, first, frequency_map, priority_queue,
                   decode_key, encode_key, idx, encoded_bits, encoded,
                   truncated, key, input, result>>

(* decode_symbol, lines 65-68: a branch, and the iterator yields a bit *)
DecodeBit ==
    /\ pc = "decode_symbol"
    /\ tree.kind = "Branch"
    /\ consumed < Len(bits)
    /\ tree' = IF bits[consumed + 1] THEN tree.right ELSE tree.left
    /\ consumed' = consumed + 1
    /\ symBits' = symBits + 1
    /\ UNCHANGED <<content, pc, run, first, frequency_map, priority_queue,
                   decode_key, encode_key, idx, encoded_bits, encoded,
                   truncated, key, input, bits, out, result>>

(* DecodeNotEnoughBits as it would be were the symbols decoded so far
   returned when the bits run out *)
DecodeNotEnoughBitsReturnsOut ==
    /\ pc = "decode_symbol"
    /\ tree.kind = "Branch"
    /\ consumed >= Len(bits)
    /\ result' = DecodeSome(out)
    /\ pc' = "done"
    /\ UNCHANGED <<content, run, first, frequency_map, priority_queue,
                   decode_key, encode_key, idx, encoded_bits, encoded,
                   truncated, key, input, bits, consumed, symBits, tree, out>>

(* decode_symbol, lines 65-66, and decode, line 42 *)
DecodeNotEnoughBits ==
    /\ pc = "decode_symbol"
    /\ tree.kind = "Branch"
    /\ consumed >= Len(bits)
    /\ result' = DecodeNone
    /\ pc' = "done"
    /\ UNCHANGED <<content, run, first, frequency_map, priority_queue,
                   decode_key, encode_key, idx, encoded_bits, encoded,
                   truncated, key, input, bits, consumed, symBits, tree, out>>

(* DecodeEmit as it would be were the cursor kept from one call of
   decode_symbol to the next *)
DecodeEmitNoRestart ==
    /\ pc = "decode_symbol"
    /\ tree.kind = "Symbol"
    /\ out' = Append(out, tree.symbol)
    /\ tree' = tree
    /\ symBits' = 0
    /\ UNCHANGED <<content, pc, run, first, frequency_map, priority_queue,
                   decode_key, encode_key, idx, encoded_bits, encoded,
                   truncated, key, input, bits, consumed, result>>

(* decode_symbol, line 64, and decode, line 44; the next call starts at key *)
DecodeEmit ==
    /\ pc = "decode_symbol"
    /\ tree.kind = "Symbol"
    /\ out' = Append(out, tree.symbol)
    /\ tree' = key
    /\ symBits' = 0
    /\ UNCHANGED <<content, pc, run, first, frequency_map, priority_queue,
                   decode_key, encode_key, idx, encoded_bits, encoded,
                   truncated, key, input, bits, consumed, result>>

(* decode_symbol, line 63, and decode, line 43 *)
DecodeEndOfInput ==
    /\ pc = "decode_symbol"
    /\ tree.kind = "EndOfInput"
    /\ result' = DecodeSome(out)
    /\ pc' = "done"
    /\ UNCHANGED <<content, run, first, frequency_map, priority_queue,
                   decode_key, encode_key, idx, encoded_bits, encoded,
                   truncated, key, input, bits, consumed, symBits, tree, out>>

Next ==
    \/ MakeKeySeed
    \/ MakeKeyMerge
    \/ MakeKeyReturn
    \/ EncodeSymbol
    \/ EncodeEndOfInput
    \/ EncodeAgain
    \/ \E t \in BOOLEAN : DecodeCall(t)
    \/ DecodeInit
    \/ DecodeBit
    \/ DecodeNotEnoughBits
    \/ DecodeEmit
    \/ DecodeEndOfInput

Spec == Init /\ [][Next]_vars

---------------------------------------------------------------------------
(* decode is called on its own: any key of 2 to MaxLeaves leaves, any bytes *)

RECURSIVE KeysWithLeaves(_)
KeysWithLeaves(n) ==
    IF n = 1 THEN {EndOfInput} \cup {Symbol(s) : s \in Symbols}
    ELSE UNION {{KeyBranch(l, r) : l \in KeysWithLeaves(k), r \in KeysWithLeaves(n - k)} :
                  k \in 1..(n - 1)}

InitDecode ==
    /\ content = <<>>
    /\ pc = "decode"
    /\ run = 1
    /\ first = <<>>
    /\ frequency_map = <<>>
    /\ priority_queue = {}
    /\ decode_key = NoKey
    /\ encode_key = <<>>
    /\ idx = 0
    /\ encoded_bits = <<>>
    /\ encoded = <<>>
    /\ truncated = FALSE
    /\ key \in UNION {KeysWithLeaves(n) : n \in 2..MaxLeaves}
    /\ input \in SeqsUpTo(ByteValues, MaxBytes)
    /\ bits = <<>>
    /\ consumed = 0
    /\ symBits = 0
    /\ tree = NoKey
    /\ out = <<>>
    /\ result = Pending

NextDecode ==
    \/ DecodeInit
    \/ DecodeBit
    \/ DecodeNotEnoughBits
    \/ DecodeEmit
    \/ DecodeEndOfInput

SpecDecode == InitDecode /\ [][NextDecode]_vars

---------------------------------------------------------------------------
(* What the properties are stated with *)

\* encode has returned Some((decode_key, encoded)) in the current call
EncodeReturned == pc \in {"encoded", "decode", "decode_symbol", "done"}

\* decode has returned after being handed all of encode's bytes
DecodedWhole == pc = "done" /\ ~truncated

RECURSIVE Count(_, _)
Count(c, s) ==
    IF c = <<>> THEN 0
    ELSE (IF Head(c) = s THEN 1 ELSE 0) + Count(Tail(c), s)

IsPrefix(p, q) == Len(p) <= Len(q) /\ SubSeq(q, 1, Len(p)) = p

\* The sum over the leaves of k of weight times depth, d being the depth of
\* k itself: a symbol weighs its count in c, the end of input weighs eoi.
RECURSIVE PathLength(_, _, _, _)
PathLength(k, d, c, eoi) ==
    IF k.kind = "EndOfInput" THEN eoi * d
    ELSE IF k.kind = "Symbol" THEN Count(c, k.symbol) * d
    ELSE PathLength(k.left, d + 1, c, eoi) + PathLength(k.right, d + 1, c, eoi)

RECURSIVE Leaves(_)
Leaves(k) ==
    IF k.kind = "EndOfInput" THEN <<None>>
    ELSE IF k.kind = "Symbol" THEN <<Some(k.symbol)>>
    ELSE Leaves(k.left) \o Leaves(k.right)

\* Every prefix-free assignment of code words of at most n bits to the
\* terminals T.
RECURSIVE PrefixFreeCodes(_, _)
PrefixFreeCodes(T, n) ==
    IF T = {} THEN {<<>>}
    ELSE LET t == CHOOSE x \in T : TRUE
         IN UNION {{insert(code, t, w) :
                       w \in {v \in SeqsUpTo(BOOLEAN, n) :
                                \A u \in DOMAIN code :
                                    ~IsPrefix(v, code[u]) /\ ~IsPrefix(code[u], v)}} :
                     code \in PrefixFreeCodes(T \ {t}, n)}

\* The terminals a key may hold, and for every set T of them the code
\* lengths of every prefix-free code for T of at most Cardinality(Symbols)
\* bits a word (a key of n leaves is at most n - 1 deep).
Terminals == {None} \cup {Some(s) : s \in Symbols}

CodeLengths ==
    UNION {{<<T, [t \in T |-> Len(code[t])]>> :
               code \in PrefixFreeCodes(T, Cardinality(Symbols))} :
             T \in SUBSET Terminals}

CodeLengthsOf(T) == {p[2] : p \in {q \in CodeLengths : q[1] = T}}

\* The terminals of a frequency table: its symbols and the end of input
TerminalsOf(fm) == {None} \cup {Some(s) : s \in DOMAIN fm}

\* The weight of a terminal under a frequency table: 0 for the end of input
Weight(fm, t) == IF t = None THEN 0 ELSE fm[t[1]]

\* The weighted length of a code of the lengths lens, summed over T
RECURSIVE CodeCost(_, _, _)
CodeCost(lens, T, fm) ==
    IF T = {} THEN 0
    ELSE LET t == CHOOSE x \in T : TRUE
         IN Weight(fm, t) * lens[t] + CodeCost(lens, T \ {t}, fm)

\* The weighted path length of the key k under a frequency table, d being
\* the depth of k itself
RECURSIVE KeyCost(_, _, _)
KeyCost(k, d, fm) ==
    IF k.kind = "EndOfInput" THEN Weight(fm, None) * d
    ELSE IF k.kind = "Symbol" THEN Weight(fm, Some(k.symbol)) * d
    ELSE KeyCost(k.left, d + 1, fm) + KeyCost(k.right, d + 1, fm)

Range(q) == {q[n] : n \in 1..Len(q)}

---------------------------------------------------------------------------
(* C1: for every non-empty content, decode handed the key and the bytes that
   encode returned gives back exactly content, however the ties between
   trees of equal frequency were resolved while the key was built. *)
RoundTrip ==
    (DecodedWhole /\ content # <<>>) => result = DecodeSome(content)

RoundTripWitness ==
    /\ DecodedWhole
    /\ Len(content) >= 3
    /\ Cardinality(DOMAIN frequency_map) >= 2
    /\ result = DecodeSome(content)

(* C2: encode of the empty sequence never returns a key and bytes. *)
EmptyInputFails ==
    content = <<>> => ~EncodeReturned

(* C3: for every non-empty content, decode handed encode's bytes less the
   final one either gives back exactly content or fails for want of bits. *)
Truncation ==
    (pc = "done" /\ truncated /\ content # <<>>)
        => (result = DecodeNone \/ result = DecodeSome(content))

TruncationWitness ==
    /\ pc = "done"
    /\ truncated
    /\ input # <<>>
    /\ out # <<>>
    /\ result = DecodeNone

(* C4: in the encode key no terminal's bits are a prefix of, or equal to,
   the bits of another terminal. *)
PrefixFree ==
    \A x \in DOMAIN encode_key : \A y \in DOMAIN encode_key :
        x # y => ~IsPrefix(encode_key[x], encode_key[y])

PrefixFreeWitness ==
    /\ pc = "encode_symbols"
    /\ Cardinality(DOMAIN encode_key) = Cardinality(Symbols) + 1
    /\ \E x \in DOMAIN encode_key : Len(encode_key[x]) >= 3

(* C5 as stated: the number of bits encode emits is the weighted path length
   of the key, the end of input weighing 0. *)
BitsAreWeightedPathLength ==
    (EncodeReturned /\ content # <<>>)
        => Len(encoded_bits) = PathLength(decode_key, 0, content, 0)

(* C5, amended: the number of bits encode emits is the weighted path length
   of the key plus the depth of the end-of-input leaf, whose code is emitted
   once. *)
BitsAreWeightedPathLengthPlusEnd ==
    (EncodeReturned /\ content # <<>>)
        => Len(encoded_bits) = PathLength(decode_key, 0, content, 1)

BitsWitness ==
    /\ pc = "encoded"
    /\ Len(content) >= 3
    /\ Cardinality(DOMAIN frequency_map) >= 2
    /\ Len(encoded_bits) = PathLength(decode_key, 0, content, 0)
                            + Len(encode_key[None])
    /\ Len(encode_key[None]) >= 2

(* C6: for every non-empty content the key make_key returns has the least
   weighted path length of all prefix-free codes for its terminals, however
   the ties were resolved. *)
Optimal ==
    (pc = "encode_symbols" /\ idx = 0 /\ content # <<>>) =>
        /\ Range(Leaves(decode_key)) = TerminalsOf(frequency_map)
        /\ Len(Leaves(decode_key)) = Cardinality(TerminalsOf(frequency_map))
        /\ \A lens \in CodeLengthsOf(TerminalsOf(frequency_map)) :
              KeyCost(decode_key, 0, frequency_map)
                  <= CodeCost(lens, TerminalsOf(frequency_map), frequency_map)

OptimalWitness ==
    /\ pc = "encode_symbols"
    /\ idx = 0
    /\ Cardinality(DOMAIN frequency_map) = Cardinality(Symbols)
    /\ \E s \in DOMAIN frequency_map : \E t \in DOMAIN frequency_map :
          frequency_map[s] < frequency_map[t]
    /\ \E lens \in CodeLengthsOf(TerminalsOf(frequency_map)) :
          KeyCost(decode_key, 0, frequency_map)
              < CodeCost(lens, TerminalsOf(frequency_map), frequency_map)

(* C7: for every key of at least two leaves and every input of n bytes,
   decode consumes at most 8n bits, every symbol it emits has consumed at
   least one bit, it can always take a step until it returns, and it returns
   at the end-of-input leaf or for want of bits. *)
DecoderBound ==
    /\ consumed <= 8 * Len(input)
    /\ Len(out) <= consumed
    /\ (pc = "decode_symbol" /\ tree.kind = "Symbol") => symBits >= 1
    /\ pc # "done" => ENABLED NextDecode
    /\ pc = "done" =>
          \/ result = DecodeSome(out) /\ tree = EndOfInput
          \/ result = DecodeNone /\ tree.kind = "Branch" /\ consumed = 8 * Len(input)

DecoderBoundWitness ==
    /\ pc = "done"
    /\ Len(input) = 2
    /\ consumed = 8 * Len(input)
    /\ Len(out) >= 4
    /\ result = DecodeNone

(* C8: two calls of encode on the same content return the same key and the
   same bytes. *)
Deterministic ==
    (run = 2 /\ pc = "encoded") => <<decode_key, encoded>> = first

(* C9: for content of one symbol X encode returns (it does not panic), the
   key is one branch over the two leaves X and end of input, encode emits at
   most 2 bits, and decode gives back content. *)
SingleSymbol ==
    /\ Len(content) = 1 => pc # "panic"
    /\ (Len(content) = 1 /\ EncodeReturned) =>
          /\ decode_key.kind = "Branch"
          /\ {decode_key.left, decode_key.right} = {EndOfInput, Symbol(content[1])}
          /\ Len(encoded_bits) <= 2
          /\ DecodedWhole => result = DecodeSome(content)

SingleSymbolWitness ==
    /\ Len(content) = 1
    /\ DecodedWhole
    /\ Leaves(decode_key) = <<None, Some(content[1])>>
    /\ result = DecodeSome(content)

(* C10: whenever encode returned, decode of its bytes never consumes more
   bits than encode wrote, and returns at the end-of-input leaf having
   consumed exactly those. *)
PaddingNeverRead ==
    /\ (pc = "decode_symbol" /\ ~truncated) => consumed <= Len(encoded_bits)
    /\ DecodedWhole => (result.status = "Some" /\ consumed = Len(encoded_bits))

PaddingNeverReadWitness ==
    /\ DecodedWhole
    /\ content # <<>>
    /\ Len(encoded_bits) % 8 # 0
    /\ Len(bits) > Len(encoded_bits)
    /\ consumed = Len(encoded_bits)

====
